---- MODULE Spec2Model ----
(***************************************************************************)
(* A model of the points ledger served by src/main.py: the four document   *)
(* collections it reads and writes (user, reward, withdrawalrequest,       *)
(* gamesession), the request handlers register, start_session,             *)
(* submit_score, request_withdrawal and leaderboard, and the award         *)
(* function points_for.                                                    *)
(*                                                                         *)
(* The server handles requests concurrently, one handler invocation per    *)
(* worker.  A handler is cut at its store operations (find_one,            *)
(* insert_one / create_document, update_one, aggregate): each action below *)
(* is one store operation together with the handler's own computation up   *)
(* to its next store operation or its return.  The created_at timestamps   *)
(* the handlers add to the documents are read by no operation and are left *)
(* out of the documents.                                                   *)
(***************************************************************************)
EXTENDS Integers, Sequences, FiniteSets, TLC

VARIABLES
    user,               \* collection "user": sequence of documents, insertion order
    reward,             \* collection "reward"
    withdrawalrequest,  \* collection "withdrawalrequest"
    gamesession,        \* collection "gamesession"
    pc,                 \* per worker: the handler step it is about to take
    body,               \* per worker: the request it is serving
    response,           \* per worker: the HTTP response of the finished request
    started,            \* number of requests accepted so far
    local,              \* per worker: the user document its handler holds (me)
    award_arg,          \* SpecAward: the (game, score) points_for is applied to
    award_ret           \* SpecAward: <<>>, then <<what points_for returned>>

store == <<user, reward, withdrawalrequest, gamesession>>
frames == <<pc, body, response, started, local>>
award == <<award_arg, award_ret>>
vars == <<user, reward, withdrawalrequest, gamesession, pc, body, response, started,
          local, award_arg, award_ret>>

-----------------------------------------------------------------------------
(* Bounds of the model *)

\* requests accepted in one behaviour
MaxRequests == 3
\* requests accepted in one behaviour of SpecFair
MaxFairRequests == 2
\* largest score points_for is applied to in SpecAward
MaxScore == 1100
\* largest limit passed to leaderboard
MaxLimit == 2
\* longest reward collection SpecLeaderboard starts from
MaxRewards == 3

\* the server's concurrent request workers
Workers == {1, 2}

None == "None"
Usernames == {"alice", "bob", "mallory"}
\* the three known games and one unrecognized identifier
Games == {"word", "tiles", "parking", "chess"}
\* scores and points the requests of Spec carry
RequestScores == {-5, 999, 2000}
RequestPoints == {0, 60, 101}
Referrers == {None, "alice"}

-----------------------------------------------------------------------------
(* Pure helpers *)

Min(a, b) == IF a < b THEN a ELSE b
Max(a, b) == IF a > b THEN a ELSE b

\* cap_map.get(game, 100)
CapFor(game) ==
    CASE game = "word" -> 100
      [] game = "tiles" -> 100
      [] game = "parking" -> 100
      [] OTHER -> 100

\* points_for without the max(0, ...) around the division
PointsForNoFloor(game, score) == Min(score \div 10, CapFor(game))

\* points_for without the per-session cap
PointsForUncapped(game, score) == Max(0, score \div 10)

\* points_for(game, score): Python's // is floor division, as \div is
PointsFor(game, score) ==
    LET base == Max(0, score \div 10)
    IN  Min(base, CapFor(game))

\* the documents of coll whose username is u, by position
Matching(coll, u) == {i \in DOMAIN coll : coll[i].username = u}

\* find_one({"username": u}) finds a document
Exists(coll, u) == Matching(coll, u) # {}

\* position of the document find_one / update_one select: the first match
FirstIndex(coll, u) ==
    CHOOSE i \in Matching(coll, u) : \A j \in Matching(coll, u) : i <= j

\* find_one({"username": u}) on a collection that holds a match
FindOne(coll, u) == coll[FirstIndex(coll, u)]

\* IncBalance with the username filter left out and update_many for update_one
IncBalanceMany(coll, u, delta) ==
    [i \in DOMAIN coll |-> [coll[i] EXCEPT !.balance = @ + delta]]

\* IncBalance with $set written for $inc
IncBalanceSet(coll, u, delta) ==
    IF Exists(coll, u)
    THEN [coll EXCEPT ![FirstIndex(coll, u)].balance = delta]
    ELSE coll

\* update_one({"username": u}, {"$inc": {"balance": delta}}): the first match, or nothing
IncBalance(coll, u, delta) ==
    IF Exists(coll, u)
    THEN [coll EXCEPT ![FirstIndex(coll, u)].balance = @ + delta]
    ELSE coll

\* create_document(collection_name, data) of the database module: the document
\* is added to the collection (its timestamps are left out, as created_at is)
CreateDocument(coll, doc) == Append(coll, doc)

\* get_documents(collection_name, filter, limit) of the database module: the
\* documents of the collection with that username, in order, at most limit of them
GetDocuments(coll, u, limit) ==
    LET hits == SelectSeq(coll, LAMBDA d : d.username = u)
    IN  SubSeq(hits, 1, Min(limit, Len(hits)))

\* user.get("balance", 0) of the document find_one returns
BalanceOf(u) == FindOne(user, u).balance

RECURSIVE SumPoints(_, _, _)
\* sum of field points_awarded / points over the documents of coll with username u
SumPoints(coll, u, field) ==
    IF coll = <<>> THEN 0
    ELSE LET d == coll[Len(coll)]
             rest == SubSeq(coll, 1, Len(coll) - 1)
         IN  (IF d.username = u THEN d[field] ELSE 0) + SumPoints(rest, u, field)

-----------------------------------------------------------------------------
(* Documents and requests *)

\* register's doc
UserDoc(b) ==
    [username |-> b.username, ton_address |-> b.ton_address,
     referred_by |-> b.referred_by, is_banned |-> FALSE, balance |-> 0]

\* start_session's sess
SessionDoc(b) ==
    [username |-> b.username, game |-> b.game, score |-> 0, duration_sec |-> 0]

\* submit_score's reward_doc
RewardDoc(b) ==
    [username |-> b.username, game |-> b.game, score |-> b.score,
     points_awarded |-> PointsFor(b.game, b.score), reason |-> "session_completed"]

\* request_withdrawal's req
WithdrawalDoc(b) ==
    [username |-> b.username, ton_address |-> b.ton_address,
     points |-> b.points, status |-> "pending"]

\* InvalidAmount with < written for <=
InvalidAmountAllowsZero(points, balance) == points < 0 \/ points > balance

\* request_withdrawal's amount check against the balance it read
InvalidAmount(points, balance) == points <= 0 \/ points > balance

RegisterBodies ==
    [op : {"register"}, username : Usernames, ton_address : {"EQ1"},
     referred_by : Referrers]
StartSessionBodies ==
    [op : {"start_session"}, username : Usernames, game : {"word"}]
\* a known game with every score, and an unrecognized game with a score over the cap
SubmitScoreBodies ==
    [op : {"submit_score"}, username : Usernames, game : {"word"},
     score : RequestScores]
    \cup [op : {"submit_score"}, username : Usernames, game : {"chess"},
          score : {2000}]
WithdrawalBodies ==
    [op : {"request_withdrawal"}, username : Usernames, ton_address : {"EQ1"},
     points : RequestPoints]
LeaderboardBodies == [op : {"leaderboard"}, limit : 1..MaxLimit]

MeBodies == [op : {"me"}, username : Usernames]

Requests ==
    RegisterBodies \cup StartSessionBodies \cup SubmitScoreBodies
        \cup WithdrawalBodies \cup LeaderboardBodies \cup MeBodies

NoBody == [op |-> "none"]
NoLocal == [username |-> None]
NoResponse == [code |-> 0]

\* raise HTTPException(status_code, detail)
HTTPException(code, detail) == [code |-> code, detail |-> detail]

-----------------------------------------------------------------------------
(* Leaderboard aggregation *)

\* the $group stage: the usernames that have a reward document
GroupIds(rs) == {rs[i].username : i \in DOMAIN rs}

\* the $sum of a group
GroupTotal(rs, u) == SumPoints(rs, u, "points_awarded")

\* SortedGroups with the sort direction reversed
SortedGroupsAscending(rs) ==
    LET ids == GroupIds(rs)
        n == Cardinality(ids)
    IN  {s \in [1..n -> ids] :
            /\ \A i, j \in 1..n : i # j => s[i] # s[j]
            /\ \A i \in 1..n, j \in 1..n :
                   i < j => GroupTotal(rs, s[i]) <= GroupTotal(rs, s[j])}

\* the $sort stage: the orders of the groups with total descending; the order of
\* groups with equal totals is the store's choice
SortedGroups(rs) ==
    LET ids == GroupIds(rs)
        n == Cardinality(ids)
    IN  {s \in [1..n -> ids] :
            /\ \A i, j \in 1..n : i # j => s[i] # s[j]
            /\ \A i \in 1..n, j \in 1..n :
                   i < j => GroupTotal(rs, s[i]) >= GroupTotal(rs, s[j])}

\* what leaderboard(limit) may return for the reward collection rs
LeaderboardResults(rs, limit) ==
    {[i \in 1..Min(limit, Len(s)) |->
         [username |-> s[i], points |-> GroupTotal(rs, s[i])]] :
        s \in SortedGroups(rs)}

-----------------------------------------------------------------------------
(* Initial state *)

\* The store as found at startup: alice and mallory registered earlier and each
\* completed one session; mallory was banned afterwards.  bob is not registered.
SeedUsers ==
    << [username |-> "alice", ton_address |-> None, referred_by |-> None,
        is_banned |-> FALSE, balance |-> 100],
       [username |-> "mallory", ton_address |-> "EQ1", referred_by |-> None,
        is_banned |-> TRUE, balance |-> 60] >>

SeedRewards ==
    << RewardDoc([username |-> "alice", game |-> "word", score |-> 1000]),
       RewardDoc([username |-> "mallory", game |-> "word", score |-> 600]) >>

IdleFrames ==
    /\ pc = [w \in Workers |-> "idle"]
    /\ body = [w \in Workers |-> NoBody]
    /\ response = [w \in Workers |-> NoResponse]
    /\ started = 0
    /\ local = [w \in Workers |-> NoLocal]

NoAward ==
    /\ award_arg = [game |-> None, score |-> 0]
    /\ award_ret = <<>>

Init ==
    /\ user = SeedUsers
    /\ reward = SeedRewards
    /\ withdrawalrequest = <<>>
    /\ gamesession = <<>>
    /\ IdleFrames
    /\ NoAward

-----------------------------------------------------------------------------
(* Request arrival and return *)

\* worker w finishes with resp
Finish(w, resp) ==
    /\ pc' = [pc EXCEPT ![w] = "done"]
    /\ response' = [response EXCEPT ![w] = resp]
    /\ UNCHANGED <<body, started>>

\* worker w moves on to its next store operation
Goto(w, label) ==
    /\ pc' = [pc EXCEPT ![w] = label]
    /\ UNCHANGED <<body, response, started>>

\* the server hands request b to worker w, the lowest idle worker
Accept(w, b) ==
    /\ pc[w] = "idle"
    /\ \A v \in Workers : v < w => pc[v] # "idle"
    /\ started < MaxRequests
    /\ pc' = [pc EXCEPT ![w] = b.op]
    /\ body' = [body EXCEPT ![w] = b]
    /\ started' = started + 1
    /\ UNCHANGED <<response, store, award, local>>

Call(w) == \E b \in Requests : Accept(w, b)

\* the response has been sent; the worker is free again
Return(w) ==
    /\ pc[w] = "done"
    /\ pc' = [pc EXCEPT ![w] = "idle"]
    /\ body' = [body EXCEPT ![w] = NoBody]
    /\ response' = [response EXCEPT ![w] = NoResponse]
    /\ UNCHANGED <<started, store, award, local>>

-----------------------------------------------------------------------------
(* register *)

\* RegisterFind that refreshes the profile of a user who already exists
RegisterFindUpsert(w) ==
    /\ pc[w] = "register"
    /\ IF Exists(user, body[w].username)
       THEN /\ user' = [user EXCEPT ![FirstIndex(user, body[w].username)].ton_address =
                                        body[w].ton_address]
            /\ Finish(w, [code |-> 200, ok |-> TRUE, message |-> "User exists"])
       ELSE /\ user' = user
            /\ Goto(w, "register_insert")
    /\ UNCHANGED <<reward, withdrawalrequest, gamesession, award, local>>

RegisterFind(w) ==
    /\ pc[w] = "register"
    /\ IF Exists(user, body[w].username)
       THEN Finish(w, [code |-> 200, ok |-> TRUE, message |-> "User exists"])
       ELSE Goto(w, "register_insert")
    /\ UNCHANGED <<store, award, local>>

RegisterInsert(w) ==
    /\ pc[w] = "register_insert"
    /\ user' = Append(user, UserDoc(body[w]))
    /\ Finish(w, [code |-> 200, ok |-> TRUE])
    /\ UNCHANGED <<reward, withdrawalrequest, gamesession, award, local>>

-----------------------------------------------------------------------------
(* start_session *)

StartSessionFind(w) ==
    /\ pc[w] = "start_session"
    /\ IF ~Exists(user, body[w].username)
       THEN Finish(w, HTTPException(404, "User not found"))
       ELSE IF FindOne(user, body[w].username).is_banned
       THEN Finish(w, HTTPException(403, "User banned"))
       ELSE Goto(w, "start_session_insert")
    /\ UNCHANGED <<store, award, local>>

StartSessionInsert(w) ==
    /\ pc[w] = "start_session_insert"
    /\ gamesession' = CreateDocument(gamesession, SessionDoc(body[w]))
    /\ Finish(w, [code |-> 200, ok |-> TRUE])
    /\ UNCHANGED <<user, reward, withdrawalrequest, award, local>>

-----------------------------------------------------------------------------
(* submit_score *)

\* SubmitScoreFind without ensure_user's 404
SubmitScoreFindNoEnsure(w) ==
    /\ pc[w] = "submit_score"
    /\ IF Exists(user, body[w].username) /\ FindOne(user, body[w].username).is_banned
       THEN Finish(w, HTTPException(403, "User banned"))
       ELSE Goto(w, "submit_score_insert")
    /\ UNCHANGED <<store, award, local>>

SubmitScoreFind(w) ==
    /\ pc[w] = "submit_score"
    /\ IF ~Exists(user, body[w].username)
       THEN Finish(w, HTTPException(404, "User not found"))
       ELSE IF FindOne(user, body[w].username).is_banned
       THEN Finish(w, HTTPException(403, "User banned"))
       ELSE Goto(w, "submit_score_insert")
    /\ UNCHANGED <<store, award, local>>

\* SubmitScoreInsert that keeps one Reward per user, replacing the one before
SubmitScoreInsertUpsert(w) ==
    /\ pc[w] = "submit_score_insert"
    /\ reward' = IF Exists(reward, body[w].username)
                 THEN [reward EXCEPT ![FirstIndex(reward, body[w].username)] =
                                         RewardDoc(body[w])]
                 ELSE CreateDocument(reward, RewardDoc(body[w]))
    /\ Goto(w, "submit_score_inc")
    /\ UNCHANGED <<user, withdrawalrequest, gamesession, award, local>>

SubmitScoreInsert(w) ==
    /\ pc[w] = "submit_score_insert"
    /\ reward' = CreateDocument(reward, RewardDoc(body[w]))
    /\ Goto(w, "submit_score_inc")
    /\ UNCHANGED <<user, withdrawalrequest, gamesession, award, local>>

SubmitScoreInc(w) ==
    /\ pc[w] = "submit_score_inc"
    /\ user' = IncBalance(user, body[w].username, PointsFor(body[w].game, body[w].score))
    /\ Finish(w, [code |-> 200, ok |-> TRUE,
                  awarded |-> PointsFor(body[w].game, body[w].score)])
    /\ UNCHANGED <<reward, withdrawalrequest, gamesession, award, local>>

-----------------------------------------------------------------------------
(* request_withdrawal *)

\* WithdrawalFind that waits for the balance to cover the points
WithdrawalFindWaitsForFunds(w) ==
    /\ pc[w] = "request_withdrawal"
    /\ IF ~Exists(user, body[w].username)
       THEN Finish(w, HTTPException(404, "User not found"))
       ELSE IF body[w].points <= 0
       THEN Finish(w, HTTPException(400, "Invalid amount"))
       ELSE IF body[w].points > FindOne(user, body[w].username).balance
       THEN Goto(w, "request_withdrawal")
       ELSE Goto(w, "request_withdrawal_insert")
    /\ UNCHANGED <<store, award, local>>

WithdrawalFind(w) ==
    /\ pc[w] = "request_withdrawal"
    /\ IF ~Exists(user, body[w].username)
       THEN Finish(w, HTTPException(404, "User not found"))
       ELSE IF InvalidAmount(body[w].points, FindOne(user, body[w].username).balance)
       THEN Finish(w, HTTPException(400, "Invalid amount"))
       ELSE Goto(w, "request_withdrawal_insert")
    /\ UNCHANGED <<store, award, local>>

\* WithdrawalInsert that also books the withdrawal as a negative reward
WithdrawalInsertAsDebit(w) ==
    /\ pc[w] = "request_withdrawal_insert"
    /\ withdrawalrequest' = CreateDocument(withdrawalrequest, WithdrawalDoc(body[w]))
    /\ reward' = CreateDocument(reward,
           [username |-> body[w].username, game |-> "word", score |-> 0,
            points_awarded |-> -body[w].points, reason |-> "withdrawal"])
    /\ Goto(w, "request_withdrawal_inc")
    /\ UNCHANGED <<user, gamesession, award, local>>

WithdrawalInsert(w) ==
    /\ pc[w] = "request_withdrawal_insert"
    /\ withdrawalrequest' = CreateDocument(withdrawalrequest, WithdrawalDoc(body[w]))
    /\ Goto(w, "request_withdrawal_inc")
    /\ UNCHANGED <<user, reward, gamesession, award, local>>

\* WithdrawalInc that leaves the deduction to a later approval
WithdrawalIncNoHold(w) ==
    /\ pc[w] = "request_withdrawal_inc"
    /\ user' = user
    /\ Finish(w, [code |-> 200, ok |-> TRUE, status |-> "pending"])
    /\ UNCHANGED <<reward, withdrawalrequest, gamesession, award, local>>

WithdrawalInc(w) ==
    /\ pc[w] = "request_withdrawal_inc"
    /\ user' = IncBalance(user, body[w].username, -body[w].points)
    /\ Finish(w, [code |-> 200, ok |-> TRUE, status |-> "pending"])
    /\ UNCHANGED <<reward, withdrawalrequest, gamesession, award, local>>

-----------------------------------------------------------------------------
(* me *)

MeFind(w) ==
    /\ pc[w] = "me"
    /\ IF ~Exists(user, body[w].username)
       THEN /\ pc' = [pc EXCEPT ![w] = "done"]
            /\ response' = [response EXCEPT ![w] = HTTPException(404, "User not found")]
            /\ local' = local
       ELSE /\ pc' = [pc EXCEPT ![w] = "me_rewards"]
            /\ local' = [local EXCEPT ![w] = FindOne(user, body[w].username)]
            /\ response' = response
    /\ UNCHANGED <<body, started, store, award>>

MeRewards(w) ==
    /\ pc[w] = "me_rewards"
    /\ pc' = [pc EXCEPT ![w] = "done"]
    /\ response' = [response EXCEPT ![w] =
           [code |-> 200, username |-> local[w].username,
            balance |-> local[w].balance, ton_address |-> local[w].ton_address,
            rewards |-> GetDocuments(reward, body[w].username, 50)]]
    /\ local' = [local EXCEPT ![w] = NoLocal]
    /\ UNCHANGED <<body, started, store, award>>

-----------------------------------------------------------------------------
(* leaderboard *)

Leaderboard(w) ==
    /\ pc[w] = "leaderboard"
    /\ \E r \in LeaderboardResults(reward, body[w].limit) :
           Finish(w, [code |-> 200, entries |-> r])
    /\ UNCHANGED <<store, award, local>>

-----------------------------------------------------------------------------
(* The server *)

Next ==
    \E w \in Workers :
        \/ Call(w)
        \/ Return(w)
        \/ RegisterFind(w)
        \/ RegisterInsert(w)
        \/ StartSessionFind(w)
        \/ StartSessionInsert(w)
        \/ SubmitScoreFind(w)
        \/ SubmitScoreInsert(w)
        \/ SubmitScoreInc(w)
        \/ WithdrawalFind(w)
        \/ WithdrawalInsert(w)
        \/ WithdrawalInc(w)
        \/ Leaderboard(w)
        \/ MeFind(w)
        \/ MeRewards(w)

Spec == Init /\ [][Next]_vars

\* the next step of the handler worker w is running
HandlerStep(w) ==
    \/ RegisterFind(w)
    \/ RegisterInsert(w)
    \/ StartSessionFind(w)
    \/ StartSessionInsert(w)
    \/ SubmitScoreFind(w)
    \/ SubmitScoreInsert(w)
    \/ SubmitScoreInc(w)
    \/ WithdrawalFind(w)
    \/ WithdrawalInsert(w)
    \/ WithdrawalInc(w)
    \/ Leaderboard(w)
    \/ MeFind(w)
    \/ MeRewards(w)

\* the server accepts a request while fewer than MaxFairRequests were accepted
CallFair(w) == started < MaxFairRequests /\ Call(w)

NextFair ==
    \E w \in Workers :
        \/ CallFair(w)
        \/ Return(w)
        \/ HandlerStep(w)

\* The server runs every handler it has started and the store answers every
\* operation: a worker whose handler has a next step takes it eventually.
SpecFair == Init /\ [][NextFair]_vars /\ \A w \in Workers : WF_vars(HandlerStep(w))

-----------------------------------------------------------------------------
(* The server with a store that can fail *)

\* The store operation worker w is about to issue raises (the store is
\* unreachable, a write is refused).  No handler catches anything, so the
\* exception ends the request with a 500 and the handler's remaining store
\* operations are never issued.
StoreError(w) ==
    /\ pc[w] \notin {"idle", "done"}
    /\ pc' = [pc EXCEPT ![w] = "done"]
    /\ response' = [response EXCEPT ![w] = [code |-> 500]]
    /\ local' = [local EXCEPT ![w] = NoLocal]
    /\ UNCHANGED <<body, started, store, award>>

NextFault ==
    \/ Next
    \/ \E w \in Workers : StoreError(w)

SpecFault == Init /\ [][NextFault]_vars

-----------------------------------------------------------------------------
(* points_for on its own: applied to every game and every score up to MaxScore *)

InitAward ==
    /\ user = <<>>
    /\ reward = <<>>
    /\ withdrawalrequest = <<>>
    /\ gamesession = <<>>
    /\ IdleFrames
    /\ award_arg \in [game : Games, score : (-MaxScore)..MaxScore]
    /\ award_ret = <<>>

ApplyPointsFor ==
    /\ award_ret = <<>>
    /\ award_ret' = <<PointsFor(award_arg.game, award_arg.score)>>
    /\ UNCHANGED <<store, frames, award_arg>>

NextAward == ApplyPointsFor

SpecAward == InitAward /\ [][NextAward]_vars

-----------------------------------------------------------------------------
(* leaderboard on its own: applied to every reward collection of up to MaxRewards
   documents *)

\* reward documents as submit_score writes them
LeaderboardRewards ==
    {RewardDoc([username |-> u, game |-> "word", score |-> s]) :
        u \in Usernames, s \in {200, 300, 500}}

InitLeaderboard ==
    /\ user = <<>>
    /\ reward \in UNION {[1..n -> LeaderboardRewards] : n \in 0..MaxRewards}
    /\ withdrawalrequest = <<>>
    /\ gamesession = <<>>
    /\ IdleFrames
    /\ NoAward

CallLeaderboard(w) == \E b \in LeaderboardBodies : Accept(w, b)

NextLeaderboard ==
    \E w \in Workers :
        \/ CallLeaderboard(w)
        \/ Leaderboard(w)
        \/ Return(w)

SpecLeaderboard == InitLeaderboard /\ [][NextLeaderboard]_vars

-----------------------------------------------------------------------------
(* Properties *)

WithdrawAlice60 ==
    [op |-> "request_withdrawal", username |-> "alice", ton_address |-> "EQ1",
     points |-> 60]

\* the two requests accepted so far are withdrawals of 60 points by alice, whose
\* balance was 100 when the first was accepted, and both have been answered
TwoWithdrawalsAnswered ==
    /\ started = 2
    /\ \A w \in Workers : pc[w] = "done" /\ body[w] = WithdrawAlice60

\* C1: every user's balance is >= 0 in every reachable state, whatever requests
\* ran and however their store steps interleaved.
C1_BalanceNonNegative ==
    \A i \in DOMAIN user : user[i].balance >= 0

\* C2: of two concurrent withdrawals of 60 points against a balance of 100,
\* exactly one succeeds and the other is rejected with 400; the balance ends at
\* 40 and exactly one WithdrawalRequest record exists.
C2_ExactlyOneWithdrawalSucceeds ==
    TwoWithdrawalsAnswered =>
        /\ {response[w].code : w \in Workers} = {200, 400}
        /\ BalanceOf("alice") = 40
        /\ Len(withdrawalrequest) = 1

\* C3: in every reachable state, also between the steps of a request in
\* progress, each user's balance equals the sum of the user's rewards minus the
\* sum of the user's withdrawal requests.
C3_BalanceMatchesLedger ==
    \A u \in Usernames :
        Exists(user, u) =>
            BalanceOf(u) = SumPoints(reward, u, "points_awarded")
                               - SumPoints(withdrawalrequest, u, "points")

\* C4: for every score s >= 0 and every game, known or not, points_for returns
\* min(s // 10, 100), which is >= 0.
C4_AwardFormula ==
    (award_ret # <<>> /\ award_arg.score >= 0) =>
        /\ award_ret[1] = Min(award_arg.score \div 10, 100)
        /\ award_ret[1] >= 0

\* points_for was applied to an unrecognized game with a score over the cap
C4_Witness ==
    /\ award_arg = [game |-> "chess", score |-> 1050]
    /\ award_ret = <<100>>

\* worker w takes a step of the handler it is running
Steps(w) == pc'[w] # pc[w]

\* C5: a withdrawal by an existing user with points <= 0 or points above the
\* user's current balance is answered 400 "Invalid amount"; it appends no
\* WithdrawalRequest record and changes no balance (nothing in the store).
C5_InvalidWithdrawalRejected ==
    [][\A w \in Workers :
          ( /\ pc[w] = "request_withdrawal"
            /\ Steps(w)
            /\ Exists(user, body[w].username)
            /\ (body[w].points <= 0 \/ body[w].points > BalanceOf(body[w].username)) )
          => /\ pc'[w] = "done"
             /\ response'[w] = [code |-> 400, detail |-> "Invalid amount"]
             /\ withdrawalrequest' = withdrawalrequest
             /\ user' = user
             /\ reward' = reward
             /\ gamesession' = gamesession]_vars

\* alice, left with 40 points after a withdrawal, had a withdrawal of 60 rejected
C5_Witness ==
    \E w \in Workers :
        /\ pc[w] = "done"
        /\ body[w] = WithdrawAlice60
        /\ response[w] = [code |-> 400, detail |-> "Invalid amount"]
        /\ BalanceOf("alice") = 40
        /\ Len(withdrawalrequest) = 1

\* C6: a submit_score call by an existing user who is not banned reads the
\* user without changing the store, then appends exactly one Reward record with
\* points_awarded = points_for(game, score) and reason "session_completed", then
\* increases that user's balance by exactly that amount and answers with it as
\* awarded; score 999 for game "word" awards 99.
C6_SubmitScoreCredits ==
    [][\A w \in Workers :
          (body[w].op = "submit_score" /\ Steps(w)) =>
              LET b == body[w]
                  pts == PointsFor(b.game, b.score)
              IN  /\ pc[w] = "submit_score" =>
                        /\ UNCHANGED store
                        /\ (Exists(user, b.username)
                               /\ ~FindOne(user, b.username).is_banned)
                           => pc'[w] = "submit_score_insert"
                        /\ pc'[w] # "submit_score_insert" => pc'[w] = "done"
                  /\ pc[w] = "submit_score_insert" =>
                        /\ reward' = Append(reward,
                               [username |-> b.username, game |-> b.game,
                                score |-> b.score, points_awarded |-> pts,
                                reason |-> "session_completed"])
                        /\ UNCHANGED <<user, withdrawalrequest, gamesession>>
                        /\ pc'[w] = "submit_score_inc"
                  /\ pc[w] = "submit_score_inc" =>
                        /\ FindOne(user', b.username).balance
                               = FindOne(user, b.username).balance + pts
                        /\ \A i \in DOMAIN user :
                               i # FirstIndex(user, b.username) => user'[i] = user[i]
                        /\ Len(user') = Len(user)
                        /\ UNCHANGED <<reward, withdrawalrequest, gamesession>>
                        /\ response'[w] = [code |-> 200, ok |-> TRUE, awarded |-> pts]
                        /\ pc'[w] = "done"
                  /\ (b.game = "word" /\ b.score = 999) => pts = 99]_vars

\* alice submitted 999 for "word": 99 awarded, one more Reward record, balance 199
C6_Witness ==
    \E w \in Workers :
        /\ pc[w] = "done"
        /\ body[w] = [op |-> "submit_score", username |-> "alice", game |-> "word",
                      score |-> 999]
        /\ response[w] = [code |-> 200, ok |-> TRUE, awarded |-> 99]
        /\ Len(reward) = Len(SeedRewards) + 1
        /\ reward[Len(reward)].points_awarded = 99
        /\ BalanceOf("alice") = 199

\* C7: submit_score and request_withdrawal by a banned user are answered 403;
\* they append no record and change no balance.
C7_BannedUserForbidden ==
    [][\A w \in Workers :
          ( /\ pc[w] \in {"submit_score", "request_withdrawal"}
            /\ Steps(w)
            /\ Exists(user, body[w].username)
            /\ FindOne(user, body[w].username).is_banned )
          => /\ pc'[w] = "done"
             /\ response'[w].code = 403
             /\ UNCHANGED store]_vars

\* C8: submit_score, request_withdrawal and start_session for a username with
\* no User record are answered 404 and leave the whole store unchanged.
C8_UnknownUserNotFound ==
    [][\A w \in Workers :
          ( /\ pc[w] \in {"submit_score", "request_withdrawal", "start_session"}
            /\ Steps(w)
            /\ ~Exists(user, body[w].username) )
          => /\ pc'[w] = "done"
             /\ response'[w] = [code |-> 404, detail |-> "User not found"]
             /\ UNCHANGED store]_vars

\* bob, who has no User record, had a score submission answered 404
C8_Witness ==
    \E w \in Workers :
        /\ pc[w] = "done"
        /\ body[w].op = "submit_score"
        /\ body[w].username = "bob"
        /\ ~Exists(user, "bob")
        /\ response[w].code = 404
        /\ reward = SeedRewards

\* C9: register for a username that has a User record answers ok and leaves the
\* store unchanged, whatever ton_address and referred_by it carries; no step of
\* register changes the record of a user who has one; the record register
\* inserts has balance 0 and is_banned false.
C9_RegisterIdempotent ==
    [][\A w \in Workers :
          (body[w].op = "register" /\ Steps(w)) =>
              LET b == body[w]
              IN  /\ (pc[w] = "register" /\ Exists(user, b.username)) =>
                        /\ pc'[w] = "done"
                        /\ response'[w].code = 200
                        /\ response'[w].ok
                        /\ UNCHANGED store
                  /\ (pc[w] = "register" /\ ~Exists(user, b.username)) =>
                        /\ pc'[w] = "register_insert"
                        /\ UNCHANGED store
                  /\ pc[w] = "register_insert" =>
                        /\ user' = Append(user,
                               [username |-> b.username,
                                ton_address |-> b.ton_address,
                                referred_by |-> b.referred_by,
                                is_banned |-> FALSE, balance |-> 0])
                        /\ UNCHANGED <<reward, withdrawalrequest, gamesession>>
                        /\ response'[w] = [code |-> 200, ok |-> TRUE]
                        /\ pc'[w] = "done"
                  /\ \A u \in Usernames :
                        Exists(user, u) =>
                            Exists(user', u) /\ FindOne(user', u) = FindOne(user, u)]_vars

\* alice, registered without an address, registered again with one: the answer is
\* "User exists" and her record is as it was
C9_Witness ==
    \E w \in Workers :
        /\ pc[w] = "done"
        /\ body[w] = [op |-> "register", username |-> "alice", ton_address |-> "EQ1",
                      referred_by |-> "alice"]
        /\ response[w] = [code |-> 200, ok |-> TRUE, message |-> "User exists"]
        /\ FindOne(user, "alice").ton_address = None
        /\ FindOne(user, "alice").referred_by = None

\* the rewards {A:50, B:30, A:20}, in any order
ExampleRewards ==
    /\ Len(reward) = 3
    /\ {<<reward[i].username, reward[i].points_awarded>> : i \in DOMAIN reward}
           = {<<"alice", 50>>, <<"bob", 30>>, <<"alice", 20>>}

\* C10: leaderboard(limit), limit >= 1, returns one entry per username among the
\* Reward records, each with the sum of that user's points_awarded, ordered by
\* total descending and cut to the first limit entries; for rewards
\* {A:50, B:30, A:20} it returns [(A,70), (B,30)].
C10_LeaderboardTopN ==
    \A w \in Workers :
        (pc[w] = "done" /\ body[w].op = "leaderboard") =>
            LET r == response[w].entries
                ids == {reward[i].username : i \in DOMAIN reward}
                shown == {r[i].username : i \in DOMAIN r}
            IN  /\ response[w].code = 200
                /\ Len(r) = Min(body[w].limit, Cardinality(ids))
                /\ \A i \in DOMAIN r :
                       /\ r[i].username \in ids
                       /\ r[i].points = SumPoints(reward, r[i].username, "points_awarded")
                /\ \A i, j \in DOMAIN r : i < j =>
                       /\ r[i].username # r[j].username
                       /\ r[i].points >= r[j].points
                /\ \A u \in ids \ shown : \A i \in DOMAIN r :
                       SumPoints(reward, u, "points_awarded") <= r[i].points
                /\ (ExampleRewards /\ body[w].limit >= 2) =>
                       r = << [username |-> "alice", points |-> 70],
                              [username |-> "bob", points |-> 30] >>

\* leaderboard(2) answered [(alice,70), (bob,30)] for the rewards A:50, B:30, A:20
C10_Witness ==
    \E w \in Workers :
        /\ pc[w] = "done"
        /\ body[w] = [op |-> "leaderboard", limit |-> 2]
        /\ ExampleRewards
        /\ response[w].entries = << [username |-> "alice", points |-> 70],
                                    [username |-> "bob", points |-> 30] >>

\* no submit_score call is between its Reward insert and its balance increment
NoCreditInProgress ==
    \A w \in Workers : pc[w] \notin {"submit_score_inc"}

\* C11: the Reward insert and the balance increment of submit_score are one
\* unit: once a call has ended, by its return or by a failed store operation,
\* there is no Reward record without its credit on the balance and no credit
\* without its Reward record.  Stated while no withdrawal has been recorded,
\* so that rewards alone account for a balance.
C11_RewardAndCreditAreOneUnit ==
    (NoCreditInProgress /\ withdrawalrequest = <<>>) =>
        \A u \in Usernames :
            Exists(user, u) => BalanceOf(u) = SumPoints(reward, u, "points_awarded")

\* the two requests accepted so far are score submissions by alice, the second
\* accepted before the first had returned, and both have been answered
TwoSubmissionsAnswered ==
    /\ started = 2
    /\ \A w \in Workers :
           /\ pc[w] = "done"
           /\ body[w].op = "submit_score"
           /\ body[w].username = "alice"

\* C12: two concurrent submit_score calls for the same user lose no update:
\* however their store steps interleaved, once both have completed the balance
\* has grown by the sum of the two awards and each call has left exactly one
\* Reward record.
C12_ConcurrentCreditsAddUp ==
    TwoSubmissionsAnswered =>
        LET d1 == [username |-> "alice", game |-> body[1].game, score |-> body[1].score,
                   points_awarded |-> response[1].awarded,
                   reason |-> "session_completed"]
            d2 == [username |-> "alice", game |-> body[2].game, score |-> body[2].score,
                   points_awarded |-> response[2].awarded,
                   reason |-> "session_completed"]
        IN  /\ \A w \in Workers :
                   /\ response[w].code = 200
                   /\ response[w].awarded = PointsFor(body[w].game, body[w].score)
            /\ BalanceOf("alice")
                   = SeedUsers[1].balance + response[1].awarded + response[2].awarded
            /\ Len(reward) = Len(SeedRewards) + 2
            /\ SubSeq(reward, 1, Len(SeedRewards)) = SeedRewards
            /\ SubSeq(reward, Len(SeedRewards) + 1, Len(reward)) \in {<<d1, d2>>, <<d2, d1>>}

\* alice's submissions of 999 and 2000 both completed: 100 + 99 + 100 = 299
C12_Witness ==
    /\ TwoSubmissionsAnswered
    /\ {body[w].score : w \in Workers} = {999, 2000}
    /\ BalanceOf("alice") = 299
    /\ Len(reward) = 4

\* C13: there is at most one User record per username in every reachable state,
\* also when two register calls for a new username interleave.
C13_UsernamesUnique ==
    \A u \in Usernames : Cardinality(Matching(user, u)) <= 1

\* C14: a request_withdrawal call that passes validation holds the points at
\* request time: it appends exactly one WithdrawalRequest record with the
\* requested points and status "pending", then decreases that user's balance
\* by exactly those points and answers status "pending"; nothing else is
\* needed for the deduction.
C14_WithdrawalHoldsPoints ==
    [][\A w \in Workers :
          (body[w].op = "request_withdrawal" /\ Steps(w)) =>
              LET b == body[w]
              IN  /\ ( /\ pc[w] = "request_withdrawal"
                       /\ Exists(user, b.username)
                       /\ b.points >= 1
                       /\ b.points <= BalanceOf(b.username) ) =>
                        /\ pc'[w] = "request_withdrawal_insert"
                        /\ UNCHANGED store
                  /\ pc[w] = "request_withdrawal_insert" =>
                        /\ withdrawalrequest' = Append(withdrawalrequest,
                               [username |-> b.username, ton_address |-> b.ton_address,
                                points |-> b.points, status |-> "pending"])
                        /\ UNCHANGED <<user, reward, gamesession>>
                        /\ pc'[w] = "request_withdrawal_inc"
                  /\ pc[w] = "request_withdrawal_inc" =>
                        /\ FindOne(user', b.username).balance
                               = FindOne(user, b.username).balance - b.points
                        /\ \A i \in DOMAIN user :
                               i # FirstIndex(user, b.username) => user'[i] = user[i]
                        /\ Len(user') = Len(user)
                        /\ UNCHANGED <<reward, withdrawalrequest, gamesession>>
                        /\ response'[w] = [code |-> 200, ok |-> TRUE, status |-> "pending"]
                        /\ pc'[w] = "done"]_vars

\* alice's withdrawal of 60 was answered "pending": one pending record, balance 40
C14_Witness ==
    \E w \in Workers :
        /\ pc[w] = "done"
        /\ body[w] = WithdrawAlice60
        /\ response[w] = [code |-> 200, ok |-> TRUE, status |-> "pending"]
        /\ withdrawalrequest = << [username |-> "alice", ton_address |-> "EQ1",
                                   points |-> 60, status |-> "pending"] >>
        /\ BalanceOf("alice") = 40

\* C15: a balance changes only in the balance update of a submit_score or
\* request_withdrawal call, and only the balance of the user that call names:
\* every step of register, start_session, me and leaderboard leaves every
\* balance as it was, and no step changes the balance of another user.
C15_OnlyLedgerChangesBalance ==
    [][/\ Len(user') >= Len(user)
       /\ \A i \in DOMAIN user :
              user'[i].balance # user[i].balance =>
                  \E w \in Workers :
                      /\ Steps(w)
                      /\ body[w].op \in {"submit_score", "request_withdrawal"}
                      /\ pc[w] \in {"submit_score_inc", "request_withdrawal_inc"}
                      /\ body[w].username = user[i].username
       /\ \A w \in Workers :
              (Steps(w) /\ body[w].op \in {"register", "start_session", "me", "leaderboard"})
                  => \A i \in DOMAIN user : user'[i].balance = user[i].balance]_vars

\* after alice's submission of 999 and a me call, alice has 199 and mallory
\* still 60
C15_Witness ==
    \E w \in Workers :
        /\ pc[w] = "done"
        /\ body[w].op = "me"
        /\ response[w].code = 200
        /\ BalanceOf("alice") = 199
        /\ BalanceOf("mallory") = 60

\* C16: the leaderboard counts earned points, not held ones: no step of a
\* request_withdrawal call changes any user's leaderboard total or the users
\* on the leaderboard, and a leaderboard call changes no User, Reward,
\* WithdrawalRequest or GameSession record.
C16_LeaderboardIgnoresWithdrawals ==
    [][\A w \in Workers :
          /\ (Steps(w) /\ body[w].op = "request_withdrawal") =>
                /\ \A u \in Usernames :
                       SumPoints(reward', u, "points_awarded")
                           = SumPoints(reward, u, "points_awarded")
                /\ {reward'[i].username : i \in DOMAIN reward'}
                       = {reward[i].username : i \in DOMAIN reward}
          /\ (Steps(w) /\ body[w].op = "leaderboard") =>
                /\ user' = user
                /\ reward' = reward
                /\ withdrawalrequest' = withdrawalrequest
                /\ gamesession' = gamesession]_vars

\* after alice's withdrawal of 60 left her 40 points, the leaderboard still
\* shows her 100 earned points
C16_Witness ==
    \E w \in Workers :
        /\ pc[w] = "done"
        /\ body[w].op = "leaderboard"
        /\ response[w].entries[1] = [username |-> "alice", points |-> 100]
        /\ BalanceOf("alice") = 40
        /\ Len(withdrawalrequest) = 1

\* s is the beginning of t
IsPrefix(s, t) == Len(s) <= Len(t) /\ SubSeq(t, 1, Len(s)) = s

\* C17: the ledger is append-only: across every step the Reward and the
\* WithdrawalRequest records already written stay as they are and in place
\* (the collections only grow), every WithdrawalRequest has status "pending",
\* and no User record disappears.
C17_LedgerAppendOnly ==
    [][/\ IsPrefix(reward, reward')
       /\ IsPrefix(withdrawalrequest, withdrawalrequest')
       /\ \A i \in DOMAIN withdrawalrequest' : withdrawalrequest'[i].status = "pending"
       /\ Len(user') >= Len(user)
       /\ \A i \in DOMAIN user : user'[i].username = user[i].username]_vars

\* a reward and a withdrawal request were appended after the seed records
C17_Witness ==
    /\ Len(reward) = Len(SeedRewards) + 1
    /\ SubSeq(reward, 1, Len(SeedRewards)) = SeedRewards
    /\ Len(withdrawalrequest) = 1
    /\ Len(user) = Len(SeedUsers) + 1

\* C18: points_for returns a value in 0..100 for every score, negative ones
\* included, and every game; so every Reward record has points_awarded in
\* 0..100 and no step of a submit_score call lowers a balance or raises it by
\* more than 100.  (points_for depends on no state: its range is evaluated on
\* the steps out of the states with no request accepted yet.)
C18_AwardBounded ==
    [][/\ started = 0 =>
              \A g \in Games, s \in (-MaxScore)..MaxScore :
                  PointsFor(g, s) >= 0 /\ PointsFor(g, s) <= 100
       /\ \A i \in DOMAIN reward' :
              reward'[i].points_awarded >= 0 /\ reward'[i].points_awarded <= 100
       /\ \A w \in Workers :
              (Steps(w) /\ body[w].op = "submit_score") =>
                  /\ Len(user') = Len(user)
                  /\ \A i \in DOMAIN user :
                         /\ user'[i].balance >= user[i].balance
                         /\ user'[i].balance <= user[i].balance + 100]_vars

\* alice's submission of -5 was awarded 0: a Reward of 0 points, balance still 100,
\* and her submission of 2000 for an unrecognized game was awarded the cap
C18_Witness ==
    /\ started = 2
    /\ \E w \in Workers :
           /\ pc[w] = "done"
           /\ body[w] = [op |-> "submit_score", username |-> "alice", game |-> "word",
                         score |-> -5]
           /\ response[w] = [code |-> 200, ok |-> TRUE, awarded |-> 0]
    /\ \E w \in Workers :
           /\ pc[w] = "done"
           /\ body[w] = [op |-> "submit_score", username |-> "alice", game |-> "chess",
                         score |-> 2000]
           /\ response[w] = [code |-> 200, ok |-> TRUE, awarded |-> 100]
    /\ BalanceOf("alice") = 200
    /\ {reward[i].points_awarded : i \in DOMAIN reward} = {0, 60, 100}

\* worker w is running a handler
Running(w) == pc[w] \notin {"idle", "done"}

\* worker w has answered with a success or with NotFound, Forbidden or InvalidAmount
Answered(w) == pc[w] = "done" /\ response[w].code \in {200, 404, 403, 400}

\* C19: no request blocks: with the handlers scheduled fairly, every request a
\* worker has started is eventually answered, with a success or with one of
\* 404, 403 and 400, whatever the other worker is doing.
C19_EveryRequestAnswered ==
    \A w \in Workers : Running(w) ~> Answered(w)

\* both workers ran a request at once and one of them has been answered
C19_Witness ==
    /\ Answered(1)
    /\ body[1].op = "request_withdrawal"
    /\ Running(2)
    /\ body[2].op = "submit_score"

====
